---- MODULE Spec2Model ----
(***************************************************************************)
(* Docker Management API (moganth/udemy-actions): the credential store,    *)
(* the password hasher, the token service, the authorization guard, the    *)
(* infrastructure gateway (services/docker_service.py) and the request     *)
(* handlers (routes/*.py), as one state machine.                           *)
(*                                                                         *)
(* Time is counted in whole clock units: python-jose encodes "exp" as an   *)
(* integer (timegm of the datetime) and compares it with the integer       *)
(* current time, so only whole units are observable.                       *)
(***************************************************************************)
EXTENDS Integers, Sequences, FiniteSets, TLC

VARIABLES
    users,                        \* db_service.users_collection: set of documents
    registered,                   \* history: the payload each account was registered with
    now,                          \* datetime.utcnow(), in whole units
    ACCESS_TOKEN_EXPIRE_MINUTES,  \* config.py, read from the environment at start-up
    issued,                       \* tokens handed out by POST /token
    pending,                      \* register requests between look-up and insert
    docker,                       \* state of the container engine and of the SDK client
    fs,                           \* directories under /home/ubuntu
    cluster,                      \* pods of the cluster, by name
    last                          \* the last request handled and its response

vars == <<users, registered, now, ACCESS_TOKEN_EXPIRE_MINUTES, issued, pending,
          docker, fs, cluster, last>>

authVars == <<users, registered, ACCESS_TOKEN_EXPIRE_MINUTES, issued, pending>>
engineVars == <<docker, fs, cluster>>

(***************************************************************************)
(* Bounds of the model.                                                    *)
(***************************************************************************)
MaxTime == 3          \* the clock runs from 0 to MaxTime
MaxTTL == 2           \* ACCESS_TOKEN_EXPIRE_MINUTES is drawn from 1..MaxTTL
MaxTokens == 2        \* at most this many tokens are issued
MaxRecords == 3       \* at most this many documents in the users collection
MaxPending == 2       \* at most this many register requests in flight
MaxHead == 3          \* the first 72 bytes of a password range over 1..MaxHead
MaxTail == 2          \* the bytes after the 72nd range over 0..MaxTail (0: none)

None == [none |-> TRUE]     \* Python's None (and False) where a record is expected
NoText == <<>>              \* an absent text; a text is a sequence of strings

Users == {"alice", "bob"}
\* User.role is a free string (schemas/docker_schema.py): "guest" stands for
\* any value outside the two the guards know.
Roles == {"admin", "user", "guest"}
\* A password is <<head, tail>>: head is its first 72 bytes, tail the rest.
\* passlib's bcrypt handler hashes the first 72 bytes only.
Passwords == {<<1, 0>>, <<2, 0>>, <<1, 1>>}
Salts == {"s1", "s2"}
\* The passwords of the requests that race: the race is on the username.
RacePasswords == {<<1, 0>>}

SECRET_KEY == "SECRET_KEY"

(***************************************************************************)
(* Credential store (services/db_service.py).                              *)
(***************************************************************************)
\* users_collection.find_one({"username": username}): the first matching
\* document in insertion order, or None.
get_user_by_username(username) ==
    LET found == {d \in users : d.username = username}
    IN  IF found = {} THEN None
        ELSE CHOOSE d \in found : \A e \in found : d._id <= e._id

\* insert_one on a collection without the unique index: always inserts.
insert_user_into_unindexed(collection, username, hashed_password, role) ==
    LET id == Cardinality(collection) + 1
    IN  [raised |-> "none",
         users |-> collection \cup {[_id |-> id, username |-> username,
                                     hashed_password |-> hashed_password,
                                     role |-> role]},
         user_id |-> id]

\* users_collection.insert_one under the unique index on "username":
\* raises DuplicateKeyError when a document with that username exists.
insert_user_into(collection, username, hashed_password, role) ==
    IF \E d \in collection : d.username = username
    THEN [raised |-> "DuplicateKeyError", users |-> collection, user_id |-> 0]
    ELSE LET id == Cardinality(collection) + 1
         IN  [raised |-> "none",
              users |-> collection \cup {[_id |-> id, username |-> username,
                                          hashed_password |-> hashed_password,
                                          role |-> role]},
              user_id |-> id]

insert_user(username, hashed_password, role) ==
    insert_user_into(users, username, hashed_password, role)

(***************************************************************************)
(* Password hasher (services/auth_service.py, passlib bcrypt).             *)
(***************************************************************************)
get_password_hash(password, salt) ==
    [salt |-> salt, digest |-> password[1]]

verify_password(plain_password, hashed_password) ==
    get_password_hash(plain_password, hashed_password.salt) = hashed_password

\* The passwords the hasher is applied to on its own.
HasherPasswords == {<<head, tail>> : head \in 1..MaxHead, tail \in 0..MaxTail}

(***************************************************************************)
(* Token service and authorization guard (services/auth_service.py).       *)
(***************************************************************************)
\* The role of the document is not copied: every identity has the default.
get_user_default_role(username) ==
    LET user == get_user_by_username(username)
    IN  IF user # None
        THEN [id |-> user._id, username |-> user.username,
              hashed_password |-> user.hashed_password, role |-> "user"]
        ELSE None

get_user(username) ==
    LET user == get_user_by_username(username)
    IN  IF user # None
        THEN [id |-> user._id, username |-> user.username,
              hashed_password |-> user.hashed_password, role |-> user.role]
        ELSE None

create_access_token(data, expires_delta) ==
    [kind |-> "jwt", sub |-> data.sub, role |-> data.role,
     exp |-> now + expires_delta, key |-> SECRET_KEY]

authenticate_user(username, password) ==
    LET user == get_user(username)
    IN  IF user = None THEN None
        ELSE IF ~verify_password(password, user.hashed_password) THEN None
        ELSE user

get_user_role(user) == user.role

NoToken == [kind |-> "none"]         \* no Authorization header
Malformed == [kind |-> "garbage"]    \* a bearer string that is not a JWT
JWTError == [error |-> "JWTError"]

\* A decode that rejects a token from the unit of its expiry on.
jwt_decode_strict(token) ==
    IF token.kind # "jwt" THEN JWTError
    ELSE IF token.key # SECRET_KEY THEN JWTError
    ELSE IF token.exp <= now THEN JWTError
    ELSE [sub |-> token.sub, role |-> token.role]

\* A decode that does not look at "exp" (options verify_exp off).
jwt_decode_no_expiry(token) ==
    IF token.kind # "jwt" THEN JWTError
    ELSE IF token.key # SECRET_KEY THEN JWTError
    ELSE [sub |-> token.sub, role |-> token.role]

\* jose.jwt.decode(token, SECRET_KEY, algorithms=[ALGORITHM]): the payload,
\* or JWTError when the token is not a JWT, the signature does not verify,
\* or the token has expired.  jose raises ExpiredSignatureError only when
\* exp < now: a token presented in the very unit of its expiry still decodes.
jwt_decode(token) ==
    IF token.kind # "jwt" THEN JWTError
    ELSE IF token.key # SECRET_KEY THEN JWTError
    ELSE IF token.exp < now THEN JWTError
    ELSE [sub |-> token.sub, role |-> token.role]

\* A guard that trusts the payload when the account is not found.
get_current_user_trusting(token) ==
    IF token = NoToken
    THEN [status |-> 401, detail |-> <<"Not authenticated">>, user |-> None]
    ELSE LET payload == jwt_decode(token)
         IN  IF payload = JWTError
             THEN [status |-> 401, detail |-> <<"Could not validate credentials">>,
                   user |-> None]
             ELSE LET user == get_user(payload.sub)
                  IN  IF user = None
                      THEN [status |-> 200, detail |-> NoText,
                            user |-> [id |-> 0, username |-> payload.sub,
                                      hashed_password |-> None, role |-> payload.role]]
                      ELSE [status |-> 200, detail |-> NoText, user |-> user]

\* A guard with one session per account: a token is refused once a later
\* token was issued for the same subject.
get_current_user_latest_only(token) ==
    IF token = NoToken
    THEN [status |-> 401, detail |-> <<"Not authenticated">>, user |-> None]
    ELSE LET payload == jwt_decode(token)
         IN  IF payload = JWTError
             THEN [status |-> 401, detail |-> <<"Could not validate credentials">>,
                   user |-> None]
             ELSE LET user == get_user(payload.sub)
                  IN  IF \/ user = None
                         \/ \E t \in issued : t.sub = token.sub /\ t.exp > token.exp
                      THEN [status |-> 401,
                            detail |-> <<"Could not validate credentials">>,
                            user |-> None]
                      ELSE [status |-> 200, detail |-> NoText, user |-> user]

\* get_current_user as a dependency: the identity, or the HTTP error raised.
get_current_user(token) ==
    IF token = NoToken
    THEN [status |-> 401, detail |-> <<"Not authenticated">>, user |-> None]
    ELSE LET payload == jwt_decode(token)
         IN  IF payload = JWTError
             THEN [status |-> 401, detail |-> <<"Could not validate credentials">>,
                   user |-> None]
             ELSE LET user == get_user(payload.sub)
                  IN  IF user = None
                      THEN [status |-> 401,
                            detail |-> <<"Could not validate credentials">>,
                            user |-> None]
                      ELSE [status |-> 200, detail |-> NoText, user |-> user]

\* A role check that lets every authenticated identity through.
role_required_unchecked(allowed_roles, token) ==
    get_current_user(token)

\* A role check that reads the role embedded in the token.
role_required_token_role(allowed_roles, token) ==
    LET cur == get_current_user(token)
    IN  IF cur.status # 200 THEN cur
        ELSE IF token.role \notin allowed_roles
             THEN [status |-> 403,
                   detail |-> <<"You don't have sufficient permissions to perform this action">>,
                   user |-> None]
             ELSE cur

\* role_required(allowed_roles) as a dependency on top of get_current_user.
role_required(allowed_roles, token) ==
    LET cur == get_current_user(token)
    IN  IF cur.status # 200 THEN cur
        ELSE IF get_user_role(cur.user) \notin allowed_roles
             THEN [status |-> 403,
                   detail |-> <<"You don't have sufficient permissions to perform this action">>,
                   user |-> None]
             ELSE cur

AnyRole == {"*"}   \* marks an endpoint that depends on get_current_user only

\* The dependency a handler declares: get_current_user or role_required([...]).
Guard(allowed_roles, token) ==
    IF allowed_roles = AnyRole THEN get_current_user(token)
    ELSE role_required(allowed_roles, token)

\* Tokens a client can present: the ones it was issued, nothing, garbage, or
\* a forgery signed with another key.
Forged == {[kind |-> "jwt", sub |-> "alice", role |-> "admin",
            exp |-> MaxTime + MaxTTL, key |-> "other"]}
Presented == issued \cup Forged \cup {NoToken, Malformed}

(***************************************************************************)
(* Engine, file system and cluster: the names the model ranges over and    *)
(* the faults a call can meet.                                             *)
(***************************************************************************)
Containers == {"web"}
Images == {"img"}
Volumes == {"vol"}
Repos == {"repo"}
Suffixes == {"0000000a", "0000000b"}     \* str(uuid4())[:8]
DOCKER_REGISTRY == "https://index.docker.io/v1/"
GHCR == "ghcr.io"

\* What a call of the Docker SDK can raise besides what the state decides:
\* a server error (docker.errors.APIError) or an unreachable daemon
\* (docker.errors.DockerException, not an APIError).
SdkFaults == {"none", "APIError", "DockerException"}
\* What subprocess.run(..., check=True) can raise: a non-zero exit with text
\* on stderr, a non-zero exit with empty stderr, or a missing binary.
ProcFaults == {"none", "CalledProcessError", "CalledProcessErrorSilent",
               "FileNotFoundError"}
\* What a call of the cluster client can raise: a rejection by the API
\* server, or an unreachable API server.
ClusterFaults == {"none", "ApiException", "MaxRetryError"}

\* docker.errors: NotFound and ImageNotFound are subclasses of APIError.
IsAPIError(exc) == exc \in {"APIError", "NotFound", "ImageNotFound", "Conflict"}

\* str(e) of an exception of the engine.
Str(exc) ==
    CASE exc = "APIError" -> <<"500 Server Error: Internal Server Error">>
      [] exc = "NotFound" -> <<"404 Client Error: Not Found">>
      [] exc = "ImageNotFound" -> <<"404 Client Error: Not Found (No such image)">>
      [] exc = "Conflict" -> <<"409 Client Error: Conflict">>
      [] exc = "DockerException" -> <<"Error while fetching server API version">>
      [] exc = "FileNotFoundError" -> <<"[Errno 2] No such file or directory">>
      [] exc = "MaxRetryError" -> <<"Max retries exceeded">>
      [] exc = "AttributeError" -> <<"'NoneType' object has no attribute 'strip'">>
      [] OTHER -> <<exc>>

\* e.stderr.strip() of a CalledProcessError raised with capture_output=True.
Stderr(exc) == IF exc = "CalledProcessErrorSilent" THEN <<"">> ELSE <<"fatal: exit status 1">>

\* e.reason of a kubernetes ApiException.
Reason(exc) ==
    CASE exc = "AlreadyExists" -> <<"Conflict">>
      [] exc = "NotFound" -> <<"Not Found">>
      [] OTHER -> <<"Forbidden">>

(***************************************************************************)
(* Outcomes of a gateway operation: a success payload, an error record     *)
(* {"error": msg}, or an exception leaving the operation.                  *)
(***************************************************************************)
Success(data) == [tag |-> "success", msg |-> NoText, exc |-> "none", data |-> data]
Error(msg) == [tag |-> "error", msg |-> msg, exc |-> "none", data |-> None]
Raise(exc, msg) == [tag |-> "raise", msg |-> msg, exc |-> exc, data |-> None]

\* An engine call made by an operation.
Call(fn, arg) == [fn |-> fn, arg |-> arg]

\* The result of a gateway operation: its outcome, the state it leaves and
\* the calls it made.
Res(out, d, f, c, calls) ==
    [out |-> out, docker |-> d, fs |-> f, cluster |-> c, calls |-> calls]

\* The exception a container/volume/image lookup followed by one action
\* meets: the injected fault, else what the state decides.
Lookup(fault, present) ==
    IF fault # "none" THEN fault
    ELSE IF ~present THEN "NotFound"
    ELSE "none"

(***************************************************************************)
(* Infrastructure gateway (services/docker_service.py).                    *)
(***************************************************************************)
ds_docker_login(username, password, fault) ==
    LET calls == <<Call("docker_client.login", DOCKER_REGISTRY)>>
    IN  IF fault = "none"
        THEN Res(Success([message |-> "Logged in to Docker Hub"]),
                 [docker EXCEPT !.auth = @ \cup {DOCKER_REGISTRY}], fs, cluster, calls)
        ELSE IF IsAPIError(fault)
        THEN Res(Error(Str(fault)), docker, fs, cluster, calls)
        ELSE Res(Raise(fault, Str(fault)), docker, fs, cluster, calls)

ds_build_image(dockerfile_path, image_name, fault) ==
    LET calls == <<Call("images.build", image_name)>>
    IN  IF fault = "none"
        THEN Res(Success([message |-> "built successfully", image |-> image_name]),
                 [docker EXCEPT !.images = @ \cup {image_name}], fs, cluster, calls)
        ELSE Res(Raise("Exception", <<"Build failed: ">> \o Str(fault)),
                 docker, fs, cluster, calls)

\* run_command on the state d: the only command the gateway passes that
\* changes the engine is "docker build" and "docker pull" (an image appears);
\* "docker push" leaves the local engine as it is.
run_command(command, fault, d, f, c, before) ==
    LET calls == Append(before, Call(command[1], command[2]))
    IN  IF fault = "none"
        THEN Res(Success([output |-> "stdout"]),
                 IF command[1] \in {"docker build", "docker pull"}
                 THEN [d EXCEPT !.images = @ \cup {command[2]}] ELSE d,
                 f, c, calls)
        ELSE IF fault \in {"CalledProcessError", "CalledProcessErrorSilent"}
        THEN Res(Error(Stderr(fault)), d, f, c, calls)
        ELSE Res(Raise(fault, Str(fault)), d, f, c, calls)

clone_github_repo(github_url, repo_name, fault) ==
    IF repo_name \in fs.dirs
    THEN Res(Error(<<"Directory ", repo_name, " already exists.">>),
             docker, fs, cluster, <<>>)
    ELSE LET calls == <<Call("git clone", repo_name)>>
         IN  IF fault = "none"
             THEN Res(Success([message |-> "Repository cloned", path |-> repo_name]),
                      docker, [fs EXCEPT !.dirs = @ \cup {repo_name}], cluster, calls)
             ELSE IF fault \in {"CalledProcessError", "CalledProcessErrorSilent"}
             THEN Res(Error(<<"Failed to clone repository: ">> \o Stderr(fault)),
                      docker, fs, cluster, calls)
             ELSE Res(Raise(fault, Str(fault)), docker, fs, cluster, calls)

\* A pipeline that builds whatever the clone answered.
build_image_from_repo_always(github_url, image_name, repo_name, fault1, fault2) ==
    LET clone_response == clone_github_repo(github_url, repo_name, fault1)
        build_response ==
            run_command(<<"docker build", image_name>>, fault2,
                        clone_response.docker, clone_response.fs,
                        clone_response.cluster, clone_response.calls)
    IN  IF build_response.out.tag = "raise"
        THEN [build_response EXCEPT !.out = Error(build_response.out.msg)]
        ELSE build_response

\* A pipeline that removes the clone when the build did not succeed.
build_image_from_repo_cleanup(github_url, image_name, repo_name, fault1, fault2) ==
    LET clone_response == clone_github_repo(github_url, repo_name, fault1)
    IN  IF clone_response.out.tag = "raise"
        THEN [clone_response EXCEPT !.out = Error(clone_response.out.msg)]
        ELSE IF clone_response.out.tag = "error"
        THEN clone_response
        ELSE LET build_response ==
                     run_command(<<"docker build", image_name>>, fault2,
                                 clone_response.docker, clone_response.fs,
                                 clone_response.cluster, clone_response.calls)
             IN  IF build_response.out.tag = "success"
                 THEN build_response
                 ELSE [build_response EXCEPT
                           !.out = Error(build_response.out.msg),
                           !.fs = [@ EXCEPT !.dirs = @ \ {repo_name}]]

build_image_from_repo(github_url, image_name, repo_name, fault1, fault2) ==
    LET clone_response == clone_github_repo(github_url, repo_name, fault1)
    IN  IF clone_response.out.tag = "raise"
        THEN [clone_response EXCEPT !.out = Error(clone_response.out.msg)]
        ELSE IF clone_response.out.tag = "error"
        THEN clone_response
        ELSE LET build_response ==
                     run_command(<<"docker build", image_name>>, fault2,
                                 clone_response.docker, clone_response.fs,
                                 clone_response.cluster, clone_response.calls)
             IN  IF build_response.out.tag = "raise"
                 THEN [build_response EXCEPT !.out = Error(build_response.out.msg)]
                 ELSE build_response

push_image_to_ghcr(github_url, repo_name, image_name, token, fault1, fault2) ==
    LET login == <<Call("docker login", GHCR)>>
    IN  IF fault1 \in {"CalledProcessError", "CalledProcessErrorSilent"}
        \* the login runs without capture_output: e.stderr is None and
        \* e.stderr.strip() raises inside the except clause
        THEN Res(Raise("AttributeError", Str("AttributeError")),
                 docker, fs, cluster, login)
        ELSE IF fault1 # "none"
        THEN Res(Raise(fault1, Str(fault1)), docker, fs, cluster, login)
        ELSE run_command(<<"docker push", image_name>>, fault2, docker,
                         [fs EXCEPT !.cli_auth = @ \cup {GHCR}], cluster, login)

\* The images of the GHCR-style registry are private: "docker pull" is
\* denied unless the CLI holds a login for the registry.
\* Every exception run_command lets through becomes an error record.
pull_image_from_ghcr(github_url, repo_name, image_name, fault) ==
    LET pull_response ==
            run_command(<<"docker pull", image_name>>,
                        IF fault = "none" /\ GHCR \notin fs.cli_auth
                        THEN "CalledProcessError" ELSE fault,
                        docker, fs, cluster, <<>>)
    IN  IF pull_response.out.tag = "raise"
        THEN [pull_response EXCEPT !.out = Error(pull_response.out.msg)]
        ELSE pull_response

ds_push_image(local_image_name, repository_name, username, password, fault1, fault2) ==
    LET login == <<Call("docker_client.login", DOCKER_REGISTRY)>>
        logged == [docker EXCEPT !.auth = @ \cup {DOCKER_REGISTRY}]
        get == Append(login, Call("images.get", local_image_name))
        push == Append(get, Call("images.push", repository_name))
    IN  IF fault1 # "none"
        THEN Res(Raise("Exception", <<"Push failed: ">> \o Str(fault1)),
                 docker, fs, cluster, login)
        ELSE IF local_image_name \notin docker.images
        THEN Res(Raise("Exception", <<"Push failed: ">> \o Str("ImageNotFound")),
                 logged, fs, cluster, get)
        ELSE IF fault2 # "none"
        THEN Res(Raise("Exception", <<"Push failed: ">> \o Str(fault2)),
                 logged, fs, cluster, push)
        ELSE Res(Success([message |-> "pushed to Docker Hub", image |-> repository_name]),
                 logged, fs, cluster, push)

\* The repositories pulled from are private: the pull is refused (an
\* APIError) unless the client holds credentials for the registry.
ds_pull_image(image_name, repository_name, fault) ==
    LET calls == <<Call("images.pull", repository_name)>>
        exc == IF fault = "none" /\ DOCKER_REGISTRY \notin docker.auth
               THEN "NotFound" ELSE fault
    IN  IF exc = "none"
        THEN Res(Success([message |-> "pulled successfully", image |-> image_name]),
                 [docker EXCEPT !.images = @ \cup {image_name}], fs, cluster, calls)
        ELSE IF IsAPIError(exc)
        THEN Res(Error(Str(exc)), docker, fs, cluster, calls)
        ELSE Res(Raise(exc, Str(exc)), docker, fs, cluster, calls)

\* A listing that prunes while it lists (images.prune for images.list).
ds_list_images_prune(fault) ==
    LET calls == <<Call("images.prune", "")>>
    IN  IF fault = "none"
        THEN Res(Success([items |-> docker.images]),
                 [docker EXCEPT !.images = {}], fs, cluster, calls)
        ELSE Res(Raise(fault, Str(fault)), docker, fs, cluster, calls)

ds_list_images(fault) ==
    LET calls == <<Call("images.list", "")>>
    IN  IF fault = "none"
        THEN Res(Success([items |-> docker.images]), docker, fs, cluster, calls)
        ELSE Res(Raise(fault, Str(fault)), docker, fs, cluster, calls)

ds_delete_image(image_name, fault) ==
    LET get == <<Call("images.get", image_name)>>
        remove == Append(get, Call("images.remove", image_name))
        exc == IF fault # "none" THEN fault
               ELSE IF image_name \notin docker.images THEN "ImageNotFound"
               ELSE "none"
    IN  IF exc = "none"
        THEN Res(Success([message |-> "removed", image |-> image_name]),
                 [docker EXCEPT !.images = @ \ {image_name}], fs, cluster, remove)
        ELSE IF exc = "ImageNotFound"
        THEN Res(Error(<<"Image ", image_name, " not found">>), docker, fs, cluster, get)
        ELSE IF IsAPIError(exc)
        THEN Res(Error(Str(exc)), docker, fs, cluster, get)
        ELSE Res(Raise(exc, Str(exc)), docker, fs, cluster, get)

ds_get_logs(container_name, fault) ==
    LET get == <<Call("containers.get", container_name)>>
        exc == Lookup(fault, docker.containers[container_name] # "absent")
    IN  IF exc = "none"
        THEN Res(Success([container |-> container_name, logs |-> "lines"]),
                 docker, fs, cluster, Append(get, Call("container.logs", container_name)))
        ELSE Res(Raise("Exception", <<"Failed to get logs for container ",
                                      container_name, ": ">> \o Str(exc)),
                 docker, fs, cluster, get)

ds_get_logs_with_pods(pod_name, container_name, fault) ==
    LET calls == <<Call("read_namespaced_pod_log", pod_name)>>
        exc == Lookup(fault, pod_name \in cluster)
    IN  IF exc = "none"
        THEN Res(Success([pod |-> pod_name, logs |-> "lines"]), docker, fs, cluster, calls)
        ELSE IF exc \in {"ApiException", "NotFound"}
        THEN Res(Raise("Exception", <<"Kubernetes API error: ">> \o Reason(exc)),
                 docker, fs, cluster, calls)
        ELSE Res(Raise("Exception", <<"Unexpected error: ">> \o Str(exc)),
                 docker, fs, cluster, calls)

ds_docker_ps(fault) ==
    LET calls == <<Call("containers.list", "")>>
    IN  IF fault = "none"
        THEN Res(Success([items |-> {c \in Containers : docker.containers[c] = "running"}]),
                 docker, fs, cluster, calls)
        ELSE Res(Raise("Exception", <<"Failed to list containers: ">> \o Str(fault)),
                 docker, fs, cluster, calls)

\* containers.run pulls the image when the engine does not have it, and
\* refuses a name that is taken (409 Conflict).
ds_run_container(image_name, container_name, fault) ==
    LET calls == <<Call("containers.run", container_name)>>
        exc == IF fault # "none" THEN fault
               ELSE IF docker.containers[container_name] # "absent" THEN "Conflict"
               ELSE "none"
    IN  IF exc = "none"
        THEN Res(Success([message |-> "started successfully",
                          container |-> container_name]),
                 [docker EXCEPT !.containers[container_name] = "running",
                                !.images = @ \cup {image_name}],
                 fs, cluster, calls)
        ELSE Res(Error(Str(exc)), docker, fs, cluster, calls)

\* A pod name without the random suffix.
PodName_bare(container_name, suffix) == <<container_name, "-", "">>

PodName(container_name, suffix) == <<container_name, "-", suffix>>

\* suffix is str(uuid4())[:8].  The cluster rejects a name that is taken
\* (ApiException, reason Conflict).
ds_run_pod(image_name, container_name, container_port, suffix, fault) ==
    LET pod_name == PodName(container_name, suffix)
        calls == <<Call("create_namespaced_pod", pod_name)>>
        exc == IF fault # "none" THEN fault
               ELSE IF pod_name \in cluster THEN "AlreadyExists"
               ELSE "none"
    IN  IF exc = "none"
        THEN Res(Success([message |-> "created successfully", pod_name |-> pod_name]),
                 docker, fs, cluster \cup {pod_name}, calls)
        ELSE IF exc \in {"ApiException", "AlreadyExists"}
        THEN Res(Raise("Exception", <<"Kubernetes API error: ">> \o Reason(exc)),
                 docker, fs, cluster, calls)
        ELSE Res(Raise("Exception", <<"Unexpected error: ">> \o Str(exc)),
                 docker, fs, cluster, calls)

\* containers.get(name) followed by one method of the container; every
\* exception becomes an error record.
ContainerOp(container_name, fault, method, allowed, after, text) ==
    LET get == <<Call("containers.get", container_name)>>
        calls == Append(get, Call(method, container_name))
        state == docker.containers[container_name]
        exc == Lookup(fault, state # "absent")
    IN  IF exc # "none"
        THEN Res(Error(Str(exc)), docker, fs, cluster, get)
        ELSE IF state \notin allowed
        THEN Res(Error(Str("Conflict")), docker, fs, cluster, calls)
        ELSE Res(Success([message |-> text, container |-> container_name]),
                 [docker EXCEPT !.containers[container_name] = after],
                 fs, cluster, calls)

ds_stop_container(container_name, fault) ==
    ContainerOp(container_name, fault, "container.stop",
                {"running", "exited"}, "exited", "stopped")

ds_start_container(container_name, fault) ==
    ContainerOp(container_name, fault, "container.start",
                {"running", "exited"}, "running", "started")

ds_restart_container(container_name, fault) ==
    ContainerOp(container_name, fault, "container.restart",
                {"running", "exited"}, "running", "restarted")

\* container.remove() without force: the engine refuses to remove a
\* running container (409 Conflict).
ds_remove_container(container_name, fault) ==
    ContainerOp(container_name, fault, "container.remove",
                {"exited"}, "absent", "removed")

ds_create_volume(volume_name, fault) ==
    LET calls == <<Call("volumes.create", volume_name)>>
    IN  IF fault = "none"
        THEN Res(Success([message |-> "created", volume |-> volume_name]),
                 [docker EXCEPT !.volumes = @ \cup {volume_name}], fs, cluster, calls)
        ELSE Res(Error(Str(fault)), docker, fs, cluster, calls)

ds_list_volumes(fault) ==
    LET calls == <<Call("volumes.list", "")>>
    IN  IF fault = "none"
        THEN Res(Success([items |-> docker.volumes]), docker, fs, cluster, calls)
        ELSE Res(Error(Str(fault)), docker, fs, cluster, calls)

ds_delete_volume(volume_name, fault) ==
    LET get == <<Call("volumes.get", volume_name)>>
        exc == Lookup(fault, volume_name \in docker.volumes)
    IN  IF exc = "none"
        THEN Res(Success([message |-> "deleted", volume |-> volume_name]),
                 [docker EXCEPT !.volumes = @ \ {volume_name}], fs, cluster,
                 Append(get, Call("volume.remove", volume_name)))
        ELSE Res(Error(Str(exc)), docker, fs, cluster, get)

(***************************************************************************)
(* The response record kept in last.                                       *)
(***************************************************************************)
\* at: the time of the request; identity: what the dependency returned;
\* outcome: what the gateway returned or raised; calls: the engine calls made.
Resp(ep, req, token, status, detail, identity, body, outcome, calls) ==
    [ep |-> ep, req |-> req, token |-> token, at |-> now, status |-> status,
     detail |-> detail, identity |-> identity, body |-> body,
     outcome |-> outcome, calls |-> calls]

(***************************************************************************)
(* Authentication endpoints (routes/auth_route.py).                        *)
(***************************************************************************)
\* get_password_hash(password) followed by verify_password(candidate, hash).
hash_then_verify ==
    /\ \E password \in HasherPasswords, candidate \in HasherPasswords, salt \in Salts :
           LET hashed == get_password_hash(password, salt)
           IN  last' = Resp("verify_password",
                            [password |-> password, candidate |-> candidate],
                            NoToken, 0, NoText, None,
                            [hashed |-> hashed,
                             result |-> verify_password(candidate, hashed)],
                            None, <<>>)
    /\ UNCHANGED <<authVars, now, engineVars>>

\* POST /register without the look-up: the insert is always attempted.
register_unchecked ==
    /\ \E username \in Users, password \in Passwords, role \in Roles, salt \in Salts :
           LET req == [username |-> username, password |-> password, role |-> role]
               ins == insert_user(username, get_password_hash(password, salt), role)
           IN  IF ins.raised # "none"
               THEN /\ last' = Resp("register", req, NoToken, 500,
                                    <<"Internal Server Error">>, None, None, None, <<>>)
                    /\ UNCHANGED <<users, registered>>
               ELSE /\ Cardinality(users) < MaxRecords
                    /\ users' = ins.users
                    /\ registered' = [registered EXCEPT ![username] =
                                         [password |-> password, role |-> role]]
                    /\ last' = Resp("register", req, NoToken, 201, NoText, None,
                                    [message |-> "User registered successfully",
                                     user_id |-> ins.user_id], None, <<>>)
    /\ UNCHANGED <<now, ACCESS_TOKEN_EXPIRE_MINUTES, issued, pending, engineVars>>

\* A registration that stores the default role whatever was requested.
register_default_role ==
    /\ \E username \in Users, password \in Passwords, role \in Roles, salt \in Salts :
           LET req == [username |-> username, password |-> password, role |-> role]
           IN  IF get_user_by_username(username) # None
               THEN /\ last' = Resp("register", req, NoToken, 400,
                                    <<"Username already registered">>, None, None, None, <<>>)
                    /\ UNCHANGED <<users, registered>>
               ELSE LET hashed_password == get_password_hash(password, salt)
                        ins == insert_user(username, hashed_password, "user")
                    IN  IF ins.raised # "none"
                        THEN /\ last' = Resp("register", req, NoToken, 500,
                                             <<"Internal Server Error">>, None, None, None, <<>>)
                             /\ UNCHANGED <<users, registered>>
                        ELSE /\ Cardinality(users) < MaxRecords
                             /\ users' = ins.users
                             /\ registered' = [registered EXCEPT ![username] =
                                                  [password |-> password, role |-> role]]
                             /\ last' = Resp("register", req, NoToken, 201, NoText, None,
                                             [message |-> "User registered successfully",
                                              user_id |-> ins.user_id], None, <<>>)
    /\ UNCHANGED <<now, ACCESS_TOKEN_EXPIRE_MINUTES, issued, pending, engineVars>>

\* POST /register
register ==
    /\ \E username \in Users, password \in Passwords, role \in Roles, salt \in Salts :
           LET req == [username |-> username, password |-> password, role |-> role]
           IN  IF get_user_by_username(username) # None
               THEN /\ last' = Resp("register", req, NoToken, 400,
                                    <<"Username already registered">>, None, None, None, <<>>)
                    /\ UNCHANGED <<users, registered>>
               ELSE LET hashed_password == get_password_hash(password, salt)
                        ins == insert_user(username, hashed_password, role)
                    IN  IF ins.raised # "none"
                        THEN /\ last' = Resp("register", req, NoToken, 500,
                                             <<"Internal Server Error">>, None, None, None, <<>>)
                             /\ UNCHANGED <<users, registered>>
                        ELSE /\ Cardinality(users) < MaxRecords
                             /\ users' = ins.users
                             /\ registered' = [registered EXCEPT ![username] =
                                                  [password |-> password, role |-> role]]
                             /\ last' = Resp("register", req, NoToken, 201, NoText, None,
                                             [message |-> "User registered successfully",
                                              user_id |-> ins.user_id], None, <<>>)
    /\ UNCHANGED <<now, ACCESS_TOKEN_EXPIRE_MINUTES, issued, pending, engineVars>>

\* A log that also records the credentials of a login attempt.
auth_log_verbose(resp) ==
    IF resp.ep \in {"register", "token"}
    THEN {<<[text |-> "Request of "], [username |-> resp.req.username],
            [text |-> " with password "], [secret |-> resp.req.password]>>}
    ELSE {}

\* The entries register, login and the services they call write to the log
\* (logger.info / logger.warning / logger.error) while they handle resp.
\* An entry is the sequence of its pieces: fixed text, or an interpolated
\* username, role, document id or exception text.
auth_log(resp) ==
    IF resp.ep \notin {"register", "token"} THEN {}
    ELSE
    LET username == resp.req.username
        lookup == <<[text |-> "User lookup for username: "], [username |-> username]>>
        hashed == <<[text |-> "Password hashed successfully"]>>
    IN  IF resp.ep = "register"
        THEN IF resp.status = 400
             THEN {lookup, <<[text |-> "Username already registered"]>>}
             ELSE IF resp.status = 201
             THEN {lookup, hashed,
                   <<[text |-> "User "], [username |-> username],
                     [text |-> " registered successfully with ID: "],
                     [id |-> resp.body.user_id],
                     [text |-> ", role: "], [role |-> resp.req.role]>>,
                   <<[text |-> "User registered successfully with ID: "],
                     [id |-> resp.body.user_id]>>}
             ELSE {lookup, hashed,
                   <<[text |-> "Error inserting user: "],
                     [text |-> "E11000 duplicate key error, dup key: "],
                     [username |-> username]>>}
        ELSE LET user == get_user(username)
                 found == IF user = None
                          THEN <<[text |-> "User not found: "], [username |-> username]>>
                          ELSE <<[text |-> "User found: "], [username |-> username],
                                 [text |-> ", role: "], [role |-> user.role]>>
             IN  IF resp.status = 401
                 THEN {lookup, found,
                       <<[text |-> "Password or user is Invalid"]>>,
                       <<[text |-> "Invalid credentials"]>>}
                      \cup (IF user = None THEN {}
                            ELSE {<<[text |-> "Password verification failed"]>>})
                 ELSE {lookup, found,
                       <<[text |-> "Password verified successfully"]>>,
                       <<[text |-> "User "], [username |-> username],
                         [text |-> " Authenticated"]>>,
                       <<[text |-> "Token created Successfully"]>>,
                       <<[text |-> "Token created for user "], [username |-> username],
                         [text |-> " with role "],
                         [role |-> resp.body.access_token.role]>>}

\* POST /token that re-hashes the password on a successful login
\* (pwd_context.verify_and_update) and replaces the stored document.
login_rehash ==
    /\ \E username \in Users, password \in Passwords, salt \in Salts :
           LET req == [username |-> username, password |-> password]
               user == authenticate_user(username, password)
           IN  IF user = None
               THEN /\ last' = Resp("token", req, NoToken, 401, <<"Invalid credentials">>,
                                    None, None, None, <<>>)
                    /\ UNCHANGED <<issued, users>>
               ELSE LET access_token ==
                            create_access_token([sub |-> user.username, role |-> user.role],
                                                ACCESS_TOKEN_EXPIRE_MINUTES)
                        doc == get_user_by_username(username)
                    IN  /\ access_token \in issued \/ Cardinality(issued) < MaxTokens
                        /\ issued' = issued \cup {access_token}
                        /\ users' = (users \ {doc}) \cup
                                       {[doc EXCEPT !.hashed_password =
                                             get_password_hash(password, salt)]}
                        /\ last' = Resp("token", req, NoToken, 200, NoText, None,
                                        [access_token |-> access_token,
                                         token_type |-> "bearer"], None, <<>>)
    /\ UNCHANGED <<registered, now, ACCESS_TOKEN_EXPIRE_MINUTES, pending, engineVars>>

\* POST /token
login ==
    /\ \E username \in Users, password \in Passwords :
           LET req == [username |-> username, password |-> password]
               user == authenticate_user(username, password)
           IN  IF user = None
               THEN /\ last' = Resp("token", req, NoToken, 401, <<"Invalid credentials">>,
                                    None, None, None, <<>>)
                    /\ UNCHANGED issued
               ELSE LET access_token ==
                            create_access_token([sub |-> user.username, role |-> user.role],
                                                ACCESS_TOKEN_EXPIRE_MINUTES)
                    IN  /\ access_token \in issued \/ Cardinality(issued) < MaxTokens
                        /\ issued' = issued \cup {access_token}
                        /\ last' = Resp("token", req, NoToken, 200, NoText, None,
                                        [access_token |-> access_token,
                                         token_type |-> "bearer"], None, <<>>)
    /\ UNCHANGED <<users, registered, now, ACCESS_TOKEN_EXPIRE_MINUTES, pending,
                   engineVars>>

\* POST /register runs in a worker thread (a def handler): between the
\* look-up and the insert of one request, other requests run.
\* First half: get_user_by_username and the 400 answer.
register_lookup ==
    /\ \E username \in Users, password \in RacePasswords, role \in Roles :
           LET req == [username |-> username, password |-> password, role |-> role]
           IN  IF get_user_by_username(username) # None
               THEN /\ last' = Resp("register", req, NoToken, 400,
                                    <<"Username already registered">>, None, None, None, <<>>)
                    /\ UNCHANGED pending
               ELSE /\ req \notin pending
                    /\ Cardinality(pending) < MaxPending
                    /\ pending' = pending \cup {req}
                    /\ UNCHANGED last
    /\ UNCHANGED <<users, registered, now, ACCESS_TOKEN_EXPIRE_MINUTES, issued,
                   engineVars>>

\* Second half: get_password_hash, insert_user and the answer; the
\* DuplicateKeyError insert_user re-raises is not handled by the handler.
register_insert ==
    /\ \E req \in pending, salt \in Salts :
           LET hashed_password == get_password_hash(req.password, salt)
               ins == insert_user(req.username, hashed_password, req.role)
           IN  /\ pending' = pending \ {req}
               /\ IF ins.raised # "none"
                  THEN /\ last' = Resp("register", req, NoToken, 500,
                                       <<"Internal Server Error">>, None, None, None, <<>>)
                       /\ UNCHANGED <<users, registered>>
                  ELSE /\ users' = ins.users
                       /\ registered' = [registered EXCEPT ![req.username] =
                                            [password |-> req.password, role |-> req.role]]
                       /\ last' = Resp("register", req, NoToken, 201, NoText, None,
                                       [message |-> "User registered successfully",
                                        user_id |-> ins.user_id], None, <<>>)
    /\ UNCHANGED <<now, ACCESS_TOKEN_EXPIRE_MINUTES, issued, engineVars>>

\* The clock advances.
Tick ==
    /\ now < MaxTime
    /\ now' = now + 1
    /\ UNCHANGED <<authVars, engineVars, last>>

(***************************************************************************)
(* Request handlers of the infrastructure endpoints (routes/*.py).         *)
(***************************************************************************)
NoMessage == [action |-> "-", target |-> "-", actor |-> "-"]

\* A handler whose body runs before the dependency is looked at: the
\* gateway is called also for a request that is then refused.
Handle_execute_first(ep, allowed_roles, token, req, results, hasTry, action, target) ==
    LET cur == Guard(allowed_roles, token)
    IN  /\ \E res \in results :
              /\ docker' = res.docker
              /\ fs' = res.fs
              /\ cluster' = res.cluster
              /\ last' =
                   IF cur.status # 200
                   THEN Resp(ep, req, token, cur.status, cur.detail, None, None, None, <<>>)
                   ELSE IF res.out.tag = "raise"
                   THEN Resp(ep, req, token, 500, res.out.msg, cur.user,
                             [unhandled |-> ~hasTry,
                              exc |-> IF hasTry THEN "HTTPException" ELSE res.out.exc],
                             res.out, res.calls)
                   ELSE Resp(ep, req, token, 200, NoText, cur.user,
                             [message |-> IF action = "-" THEN NoMessage
                                          ELSE [action |-> action, target |-> target,
                                                actor |-> cur.user.username],
                              result |-> res.out],
                             res.out, res.calls)
        /\ UNCHANGED <<authVars, now>>

\* One protected request: the declared dependency runs first; when it
\* raises, the handler body does not run.  Otherwise the handler calls the
\* gateway, with one of the results the call can have (one per fault it can
\* meet), and answers 200 with {message, result}; an exception of the
\* gateway becomes a 500 with its text when the handler has a try/except,
\* and an unhandled server error when it has none.
Handle(ep, allowed_roles, token, req, results, hasTry, action, target) ==
    LET cur == Guard(allowed_roles, token)
    IN  /\ IF cur.status # 200
           THEN /\ last' = Resp(ep, req, token, cur.status, cur.detail, None, None, None, <<>>)
                /\ UNCHANGED engineVars
           ELSE \E res \in results :
                      /\ docker' = res.docker
                      /\ fs' = res.fs
                      /\ cluster' = res.cluster
                      /\ last' =
                           IF res.out.tag = "raise"
                           THEN IF hasTry
                                THEN Resp(ep, req, token, 500, res.out.msg, cur.user,
                                          [unhandled |-> FALSE, exc |-> "HTTPException"],
                                          res.out, res.calls)
                                ELSE Resp(ep, req, token, 500,
                                          <<"Internal Server Error">>, cur.user,
                                          [unhandled |-> TRUE, exc |-> res.out.exc],
                                          res.out, res.calls)
                           ELSE Resp(ep, req, token, 200, NoText, cur.user,
                                     [message |-> IF action = "-" THEN NoMessage
                                                  ELSE [action |-> action,
                                                        target |-> target,
                                                        actor |-> cur.user.username],
                                      result |-> res.out],
                                     res.out, res.calls)
        /\ UNCHANGED <<authVars, now>>

\* The faults of an operation that makes two calls: at most one of them fails.
TwoFaults(first, second) ==
    {<<f, "none">> : f \in first} \cup {<<"none", f>> : f \in second}

\* The gateway is not called: the handler answers by itself.
NoCall == Res(Success([message |-> "ok"]), docker, fs, cluster, <<>>)

\* ---- routes/container_route.py ----
run_container ==
    \E token \in Presented, image_name \in Images, container_name \in Containers :
        Handle("run_container", AnyRole, token,
               [image_name |-> image_name, container_name |-> container_name],
               {ds_run_container(image_name, container_name, fault) :
                   fault \in SdkFaults},
               TRUE, "initiated", container_name)

run_pod ==
    \E token \in Presented, image_name \in Images, container_name \in Containers,
       suffix \in Suffixes :
        Handle("run_pod", AnyRole, token,
               [image_name |-> image_name, container_name |-> container_name],
               {ds_run_pod(image_name, container_name, 80, suffix, fault) :
                   fault \in ClusterFaults},
               TRUE, "created", PodName(container_name, suffix))

stop_container ==
    \E token \in Presented, container_name \in Containers :
        Handle("stop_container", AnyRole, token, [container_name |-> container_name],
               {ds_stop_container(container_name, fault) :
                   fault \in SdkFaults},
               TRUE, "deleted", container_name)

start_container ==
    \E token \in Presented, container_name \in Containers :
        Handle("start_container", AnyRole, token, [container_name |-> container_name],
               {ds_start_container(container_name, fault) :
                   fault \in SdkFaults},
               TRUE, "deleted", container_name)

restart_container ==
    \E token \in Presented, container_name \in Containers :
        Handle("restart_container", AnyRole, token, [container_name |-> container_name],
               {ds_restart_container(container_name, fault) :
                   fault \in SdkFaults},
               TRUE, "deleted", container_name)

remove_container ==
    \E token \in Presented, container_name \in Containers :
        Handle("remove_container", {"admin"}, token, [container_name |-> container_name],
               {ds_remove_container(container_name, fault) :
                   fault \in SdkFaults},
               TRUE, "deleted", container_name)

get_logs ==
    \E token \in Presented, container_name \in Containers :
        Handle("get_logs", {"admin", "user"}, token, [container_name |-> container_name],
               {ds_get_logs(container_name, fault) :
                   fault \in SdkFaults},
               TRUE, "-", "-")

get_logs_with_pods ==
    \E token \in Presented, container_name \in Containers, suffix \in Suffixes :
        Handle("get_logs_with_pods", {"admin", "user"}, token,
               [pod_name |-> PodName(container_name, suffix),
                container_name |-> container_name],
               {ds_get_logs_with_pods(PodName(container_name, suffix), container_name, fault) :
                   fault \in ClusterFaults},
               TRUE, "-", "-")

docker_ps ==
    \E token \in Presented :
        Handle("docker_ps", AnyRole, token, None, {ds_docker_ps(fault) :
                   fault \in SdkFaults},
               FALSE, "-", "-")

\* GET /logs: the process's own log file; logger.py creates it at import.
read_logs ==
    \E token \in Presented :
        Handle("read_logs", AnyRole, token, None, {NoCall}, TRUE, "-", "-")

protected_route ==
    \E token \in Presented :
        Handle("protected_route", AnyRole, token, None, {NoCall}, FALSE, "Hello", "-")

\* ---- routes/image_route.py ----
\* POST "/docker/build from github repo"
build_image_github ==
    \E token \in Presented, image_name \in Images, repo_name \in Repos :
        Handle("build_image_github", AnyRole, token,
               [image_name |-> image_name, repo_name |-> repo_name],
               {build_image_from_repo("url", image_name, repo_name, f[1], f[2]) :
                   f \in TwoFaults(ProcFaults, ProcFaults)},
               FALSE, "build", image_name)

\* POST "/docker/push to ghcr"
push_image_ghcr ==
    \E token \in Presented, image_name \in Images, repo_name \in Repos :
        Handle("push_image_ghcr", AnyRole, token,
               [image_name |-> image_name, repo_name |-> repo_name],
               {push_image_to_ghcr("url", repo_name, image_name, "ghp", f[1], f[2]) :
                   f \in TwoFaults(ProcFaults, ProcFaults)},
               FALSE, "pushed to GHCR", image_name)

\* POST "/docker/pull from ghcr"
pull_image_ghcr ==
    \E token \in Presented, image_name \in Images, repo_name \in Repos :
        Handle("pull_image_ghcr", AnyRole, token,
               [image_name |-> image_name, repo_name |-> repo_name],
               {pull_image_from_ghcr("url", repo_name, image_name, fault) :
                   fault \in ProcFaults},
               FALSE, "pulled from GHCR", image_name)

\* POST /docker/build
build_image ==
    \E token \in Presented, image_name \in Images :
        Handle("build_image", AnyRole, token, [image_name |-> image_name],
               {ds_build_image("/app", image_name, fault) :
                   fault \in SdkFaults},
               TRUE, "build", image_name)

\* POST /docker/push
push_image ==
    \E token \in Presented, image_name \in Images :
        Handle("push_image", AnyRole, token, [image_name |-> image_name],
               {ds_push_image(image_name, image_name, "hubuser", "hubpw", f[1], f[2]) :
                   f \in TwoFaults(SdkFaults, SdkFaults)},
               TRUE, "pushed", image_name)

\* POST /pull
pull_image ==
    \E token \in Presented, image_name \in Images :
        Handle("pull_image", AnyRole, token, [image_name |-> image_name],
               {ds_pull_image(image_name, image_name, fault) :
                   fault \in SdkFaults},
               TRUE, "initiated", image_name)

\* GET /images
list_all_images ==
    \E token \in Presented :
        Handle("list_all_images", AnyRole, token, None, {ds_list_images(fault) :
                   fault \in SdkFaults},
               FALSE, "-", "-")

\* DELETE /images
remove_image ==
    \E token \in Presented, image_name \in Images :
        Handle("remove_image", AnyRole, token, [image_name |-> image_name],
               {ds_delete_image(image_name, fault) :
                   fault \in SdkFaults},
               FALSE, "initiated", image_name)

\* ---- routes/volume_route.py ----
create_docker_volume ==
    \E token \in Presented, volume_name \in Volumes :
        Handle("create_docker_volume", AnyRole, token, [volume_name |-> volume_name],
               {ds_create_volume(volume_name, fault) :
                   fault \in SdkFaults},
               FALSE, "deleted", volume_name)

list_docker_volumes ==
    \E token \in Presented :
        Handle("list_docker_volumes", AnyRole, token, None, {ds_list_volumes(fault) :
                   fault \in SdkFaults},
               FALSE, "-", "-")

delete_docker_volume ==
    \E token \in Presented, volume_name \in Volumes :
        Handle("delete_docker_volume", AnyRole, token, [volume_name |-> volume_name],
               {ds_delete_volume(volume_name, fault) :
                   fault \in SdkFaults},
               FALSE, "deleted", volume_name)

\* ---- routes/auth_route.py ----
\* POST /login
login_to_docker ==
    \E token \in Presented :
        Handle("login_to_docker", AnyRole, token, None,
               {ds_docker_login("hubuser", "hubpw", fault) :
                   fault \in SdkFaults},
               FALSE, "-", "-")

(***************************************************************************)
(* Specifications.                                                         *)
(***************************************************************************)
EngineInit ==
    /\ docker = [containers |-> [c \in Containers |-> "absent"], images |-> {},
                 volumes |-> {}, auth |-> {}]
    /\ fs = [dirs |-> {}, cli_auth |-> {}]
    /\ cluster = {}

NoRequest == Resp("-", None, NoToken, 0, NoText, None, None, None, <<>>)

\* The state after construction: an empty users collection, no token
\* issued, the engine as the model finds it.
Init ==
    /\ users = {}
    /\ registered = [u \in Users |-> None]
    /\ now = 0
    /\ ACCESS_TOKEN_EXPIRE_MINUTES = MaxTTL
    /\ issued = {}
    /\ pending = {}
    /\ EngineInit
    /\ last = NoRequest

\* Accounts: registration and login at a fixed time, and the guard in front
\* of three endpoints.
Next ==
    \/ register
    \/ login
    \/ protected_route
    \/ remove_container
    \/ list_all_images

Spec == Init /\ [][Next]_vars

\* Registration under interleaving: several requests are in flight at once.
NextRegister ==
    \/ register_lookup
    \/ register_insert
    \/ login
    \/ login_to_docker

SpecRegister == Init /\ [][NextRegister]_vars

\* The password hasher on its own.
NextHasher ==
    \/ hash_then_verify

SpecHasher == Init /\ [][NextHasher]_vars

\* The documents register leaves for alice (admin) and bob (user).
Seeded ==
    /\ users = insert_user_into(
                   insert_user_into({}, "alice", get_password_hash(<<1, 0>>, "s1"),
                                    "admin").users,
                   "bob", get_password_hash(<<2, 0>>, "s2"), "user").users
    /\ registered = [u \in Users |->
                        IF u = "alice" THEN [password |-> <<1, 0>>, role |-> "admin"]
                        ELSE [password |-> <<2, 0>>, role |-> "user"]]

\* Tokens over time: two accounts exist; logins, the clock and the guard.
InitToken ==
    /\ Seeded
    /\ now = 0
    /\ ACCESS_TOKEN_EXPIRE_MINUTES \in 1..MaxTTL
    /\ issued = {}
    /\ pending = {}
    /\ EngineInit
    /\ last = NoRequest

NextToken ==
    \/ login
    \/ Tick
    \/ protected_route
    \/ remove_container
    \/ list_all_images

SpecToken == InitToken /\ [][NextToken]_vars

\* The users collection lives in a MongoDB server: its administrators can
\* remove a document behind the back of the application.
external_delete_user ==
    /\ \E d \in users : users' = users \ {d}
    /\ UNCHANGED <<registered, now, ACCESS_TOKEN_EXPIRE_MINUTES, issued, pending,
                   engineVars, last>>

NextStore ==
    \/ NextToken
    \/ external_delete_user

SpecStore == InitToken /\ [][NextStore]_vars

\* The application has no endpoint that changes a role: a role changes
\* only when the document is edited in the database, while tokens issued
\* for the earlier role are still in use.
external_update_role ==
    /\ \E d \in users : \E role \in Roles \ {d.role} :
           users' = (users \ {d}) \cup {[d EXCEPT !.role = role]}
    /\ UNCHANGED <<registered, now, ACCESS_TOKEN_EXPIRE_MINUTES, issued, pending,
                   engineVars, last>>

\* Roles over the life of an account: logins, edits of the stored role and
\* removals of documents, and two endpoints with declared roles.
NextRoles ==
    \/ login
    \/ external_update_role
    \/ external_delete_user
    \/ remove_container
    \/ get_logs

SpecRoles == InitToken /\ [][NextRoles]_vars

\* The gateway behind the handlers: two accounts exist and each logged in
\* at time 0.
InitGateway ==
    /\ Seeded
    /\ now = 0
    /\ ACCESS_TOKEN_EXPIRE_MINUTES = 1
    /\ issued = {create_access_token([sub |-> u, role |-> registered[u].role], 1) :
                    u \in Users}
    /\ pending = {}
    /\ EngineInit
    /\ last = NoRequest

\* routes/container_route.py
NextContainers ==
    \/ Tick
    \/ run_container
    \/ run_pod
    \/ stop_container
    \/ start_container
    \/ restart_container
    \/ remove_container
    \/ get_logs
    \/ get_logs_with_pods
    \/ docker_ps
    \/ read_logs
    \/ protected_route

SpecContainers == InitGateway /\ [][NextContainers]_vars

\* The read operations, next to the operations that fill what they read.
NextReads ==
    \/ run_container
    \/ run_pod
    \/ create_docker_volume
    \/ list_all_images
    \/ docker_ps
    \/ list_docker_volumes
    \/ get_logs
    \/ get_logs_with_pods

SpecReads == InitGateway /\ [][NextReads]_vars

\* routes/image_route.py, routes/volume_route.py and POST /login
NextImages ==
    \/ build_image_github
    \/ push_image_ghcr
    \/ pull_image_ghcr
    \/ build_image
    \/ push_image
    \/ pull_image
    \/ list_all_images
    \/ remove_image
    \/ create_docker_volume
    \/ list_docker_volumes
    \/ delete_docker_volume
    \/ login_to_docker

SpecImages == InitGateway /\ [][NextImages]_vars

(***************************************************************************)
(* Properties.                                                             *)
(***************************************************************************)
\* C1: registering a username that is not in the store answers 201 and
\* stores the account; every later login with the username and password of
\* the registration answers 200 with a token whose sub is the username and
\* whose role is the role given at registration.
C1_RegisterFresh ==
    (last'.ep = "register" /\ get_user_by_username(last'.req.username) = None)
        => /\ last'.status = 201
           /\ \E d \in users' : /\ d.username = last'.req.username
                                /\ d.role = last'.req.role
                                /\ d._id = last'.body.user_id

C1_LoginAfterRegister ==
    (/\ last.ep = "token"
     /\ registered[last.req.username] # None
     /\ registered[last.req.username].password = last.req.password)
        => /\ last.status = 200
           /\ last.body.token_type = "bearer"
           /\ last.body.access_token.sub = last.req.username
           /\ last.body.access_token.role = registered[last.req.username].role

C1_RegisterThenLogin == [][C1_RegisterFresh]_vars /\ []C1_LoginAfterRegister

C1_Witness ==
    /\ last.ep = "token"
    /\ last.status = 200
    /\ last.req.username = "bob"
    /\ registered["bob"].role = "admin"
    /\ last.body.access_token.role = "admin"

\* C2: registering a username that is in the store answers 400 "Username
\* already registered" and leaves the collection as it was: the existing
\* document keeps its hash and role and no insert is attempted.
C2_DuplicateStep ==
    (last'.ep = "register" /\ get_user_by_username(last'.req.username) # None)
        => /\ last'.status = 400
           /\ last'.detail = <<"Username already registered">>
           /\ users' = users

C2_DuplicateUsername == [][C2_DuplicateStep]_vars

C2_Witness ==
    /\ last.ep = "register"
    /\ last.status = 400
    /\ \E d \in users : /\ d.username = last.req.username
                        /\ d.role # last.req.role

\* An endpoint behind get_current_user or role_required.
IsProtected(ep) == ep \notin {"-", "register", "token"}

BadToken(token, at) ==
    \/ token.kind # "jwt"
    \/ token.key # SECRET_KEY
    \/ token.exp < at

C4_Unauthenticated ==
    (IsProtected(last.ep) /\ BadToken(last.token, last.at))
        => /\ last.status = 401
           /\ last.identity = None
           /\ last.outcome = None
           /\ last.calls = <<>>

C4_Witness ==
    /\ last.ep = "remove_container"
    /\ last.token \in issued
    /\ last.token.sub = "alice"
    /\ last.token.exp < last.at
    /\ last.status = 401

\* C5: behind role_required(["admin"]) (container removal) an authenticated
\* identity is returned if and only if its role is admin, and the request
\* answers 403 otherwise; the image list, behind get_current_user alone,
\* never answers 403 and answers 200 to the same identity.
C5_RoleRequired ==
    /\ (last.ep = "remove_container" /\ last.token \in issued)
           => IF registered[last.token.sub].role \in {"admin"}
              THEN /\ last.status \notin {401, 403}
                   /\ last.identity # None
                   /\ last.identity.username = last.token.sub
                   /\ last.identity.role = "admin"
                   /\ last.outcome # None
              ELSE /\ last.status = 403
                   /\ last.identity = None
                   /\ last.outcome = None
    /\ (last.ep = "list_all_images" /\ last.token \in issued)
           => /\ last.status \notin {401, 403}
              /\ last.identity # None
              /\ last.identity.username = last.token.sub
              /\ last.identity.role = registered[last.token.sub].role
              /\ last.outcome.tag # "raise" => last.status = 200

C5_Witness ==
    /\ last.ep = "remove_container"
    /\ last.token \in issued
    /\ registered[last.token.sub].role = "user"
    /\ last.status = 403

\* C6: a request whose token has a valid signature and has not expired, but
\* whose subject has no document in the users collection at the time of the
\* request, answers 401, returns no identity and calls nothing.
C6_Step ==
    (/\ last' # last
     /\ IsProtected(last'.ep)
     /\ ~BadToken(last'.token, now)
     /\ get_user_by_username(last'.token.sub) = None)
        => /\ last'.status = 401
           /\ last'.detail = <<"Could not validate credentials">>
           /\ last'.identity = None
           /\ last'.outcome = None
           /\ UNCHANGED engineVars

C6_AccountGone == [][C6_Step]_vars

C6_Witness ==
    /\ IsProtected(last.ep)
    /\ last.token \in issued
    /\ last.token.exp >= last.at
    /\ ~\E d \in users : d.username = last.token.sub
    /\ last.status = 401

\* C7 as stated: every gateway operation returns an outcome, a success
\* payload or an error record, whatever exception the engine raises; none
\* lets an exception reach the handler.
C7_NoEscape ==
    (IsProtected(last.ep) /\ last.outcome # None)
        => last.outcome.tag \in {"success", "error"}

\* C8 as stated: a failed gateway call reaches the client as an HTTP error
\* (404 when the target is not found, 500 otherwise), never as a 200.
C8_FailureIsHttpError ==
    (IsProtected(last.ep) /\ last.outcome # None /\ last.outcome.tag # "success")
        => /\ last.status >= 400
           /\ last.outcome.msg = Str("NotFound") => last.status = 404

\* C9: in build_image_from_repo the build runs only after a clone that
\* succeeded in the same call; when the clone fails (the directory exists,
\* or git clone fails) no build command runs, no image appears and the
\* outcome is the clone's error record.
C9_Step ==
    (last' # last /\ last'.ep = "build_image_github" /\ last'.outcome # None)
        => LET repo == last'.req.repo_name
               cloned == repo \notin fs.dirs /\ repo \in fs'.dirs
               built == \E i \in DOMAIN last'.calls :
                            last'.calls[i].fn = "docker build"
           IN  /\ built => /\ cloned
                           /\ last'.calls[1] = Call("git clone", repo)
                           /\ Len(last'.calls) = 2
               /\ repo \in fs.dirs
                      => /\ last'.outcome =
                              Error(<<"Directory ", repo, " already exists.">>)
                         /\ last'.calls = <<>>
                         /\ UNCHANGED engineVars
               /\ ~cloned
                      => /\ ~built
                         /\ last'.outcome.tag = "error"
                         /\ UNCHANGED engineVars
                         /\ repo \notin fs.dirs
                                => /\ last'.calls = <<Call("git clone", repo)>>
                                   /\ \/ SubSeq(last'.outcome.msg, 1, 1) =
                                             <<"Failed to clone repository: ">>
                                      \/ last'.outcome.msg = Str("FileNotFoundError")

C9_BuildOnlyAfterClone == [][C9_Step]_vars

C9_Witness ==
    /\ last.ep = "build_image_github"
    /\ last.outcome = Error(<<"Directory ", "repo", " already exists.">>)
    /\ last.calls = <<>>
    /\ "repo" \in fs.dirs

\* C10 as stated: two run_pod calls with the same container_name never
\* produce the same pod name, so no call fails on a name taken by an
\* earlier call.
C10_NeverCollides ==
    ~(/\ last.ep = "run_pod"
      /\ last.outcome # None
      /\ last.outcome.msg = <<"Kubernetes API error: ", "Conflict">>)

\* C10 as the code has it: the pod is named container_name, "-" and the
\* 8-hex suffix drawn by the call, and is submitted without a look-up; the
\* call adds the pod only when the name is free, always fails (500) when a
\* pod of that name exists, and reports "Kubernetes API error: Conflict"
\* only in that case, which happens when the suffix repeats.
C10_Step ==
    (last' # last /\ last'.ep = "run_pod" /\ last'.outcome # None)
        => LET pod_name == last'.calls[1].arg
           IN  /\ Len(last'.calls) = 1
               /\ last'.calls[1].fn = "create_namespaced_pod"
               /\ \E suffix \in Suffixes :
                      pod_name = <<last'.req.container_name, "-", suffix>>
               /\ last'.outcome.tag = "success"
                      => /\ pod_name \notin cluster
                         /\ cluster' = cluster \cup {pod_name}
                         /\ last'.outcome.data.pod_name = pod_name
                         /\ last'.status = 200
               /\ pod_name \in cluster
                      => /\ last'.outcome.tag = "raise"
                         /\ last'.status = 500
                         /\ cluster' = cluster
               /\ (pod_name \notin cluster /\ last'.outcome.tag # "success")
                      => /\ last'.status = 500
                         /\ last'.detail # <<"Kubernetes API error: ", "Conflict">>
                         /\ cluster' = cluster
               /\ last'.detail = <<"Kubernetes API error: ", "Conflict">>
                      => pod_name \in cluster

C10_SuffixNames == [][C10_Step]_vars

C10_Witness ==
    /\ last.ep = "run_pod"
    /\ last.status = 200
    /\ cluster = {<<"web", "-", s>> : s \in Suffixes}

\* C11 as stated: a login with an unknown username and a login with a known
\* username and a password other than the registered one get the same
\* response, 401 "Invalid credentials" and no token.
C11_LoginFailureUniform ==
    (/\ last.ep = "token"
     /\ \/ registered[last.req.username] = None
        \/ registered[last.req.username].password # last.req.password)
        => /\ last.status = 401
           /\ last.detail = <<"Invalid credentials">>
           /\ last.body = None

\* C12: in every reachable state of the users collection, whatever the
\* order and interleaving of the register requests, at most one document
\* exists per username.
C12_UsernameUnique ==
    \A d \in users, e \in users : d.username = e.username => d = e

C12_Witness ==
    /\ last.ep = "register"
    /\ last.status = 500
    /\ \E d \in users : d.username = last.req.username /\ d.role # last.req.role
    /\ Cardinality(users) = 2

\* C13: no operation changes or removes a document of the users collection;
\* the collection changes only by a successful register, which adds one
\* document for the username of the request.
C13_Step ==
    /\ users \subseteq users'
    /\ users' # users
           => /\ last'.ep = "register"
              /\ last'.status = 201
              /\ \E d \in users' \ users :
                     /\ users' = users \cup {d}
                     /\ d.username = last'.req.username
                     /\ d.role = last'.req.role
                     /\ d._id = last'.body.user_id

C13_StoreFrame == [][C13_Step]_vars

C13_Witness ==
    /\ last.ep = "login_to_docker"
    /\ last.status = 200
    /\ last.outcome.tag = "success"
    /\ Cardinality(users) = 2

\* C14 as stated: every document of the users collection has the role admin
\* or the role user; register persists no other role.
C14_RoleEnumerated ==
    \A d \in users : d.role \in {"admin", "user"}

\* C15: a token is either accepted or not, by its signature, its expiry and
\* the existence of its account alone: an issued token past its expiry is
\* never accepted again, and an issued token that is accepted stays accepted
\* by every later request up to its expiry as long as its account exists,
\* whatever happened in between (a newer token for the same user included).
C15_Accepts(token) == get_current_user(token).status = 200

C15_Step ==
    /\ \A t \in issued :
           t.exp < now => (~C15_Accepts(t) /\ ~C15_Accepts(t)')
    /\ \A t \in issued :
           (/\ C15_Accepts(t)
            /\ now' <= t.exp
            /\ get_user_by_username(t.sub)' # None) => C15_Accepts(t)'
    /\ (last' # last /\ IsProtected(last'.ep) /\ last'.token \in issued)
           => (last'.status # 401 <=> C15_Accepts(last'.token))

C15_NoRevocation == [][C15_Step]_vars

C15_Witness ==
    /\ last.ep = "protected_route"
    /\ last.status = 200
    /\ last.token \in issued
    /\ \E t \in issued : t.sub = last.token.sub /\ t.exp > last.token.exp

ReadEndpoints == {"list_all_images", "docker_ps", "list_docker_volumes",
                  "get_logs", "get_logs_with_pods"}

C16_Step ==
    (last' # last /\ last'.ep \in ReadEndpoints /\ last'.outcome # None)
        => LET out == last'.outcome
               ok == out.tag = "success"
           IN  /\ UNCHANGED engineVars
               /\ Len(last'.calls) >= 1
               /\ last'.ep = "list_all_images"
                      => IF ok THEN out.data.items = docker.images
                         ELSE /\ out.tag = "raise"
                              /\ \E f \in SdkFaults \ {"none"} :
                                     out.exc = f /\ out.msg = Str(f)
               /\ last'.ep = "list_docker_volumes"
                      => IF ok THEN out.data.items = docker.volumes
                         ELSE /\ out.tag = "error"
                              /\ \E f \in SdkFaults \ {"none"} : out.msg = Str(f)
               /\ last'.ep = "docker_ps"
                      => IF ok
                         THEN out.data.items =
                                  {c \in Containers : docker.containers[c] = "running"}
                         ELSE /\ out.tag = "raise"
                              /\ \E f \in SdkFaults \ {"none"} :
                                     out.msg = <<"Failed to list containers: ">> \o Str(f)
               /\ last'.ep = "get_logs"
                      => LET name == last'.req.container_name
                             absent == docker.containers[name] = "absent"
                         IN  IF ok THEN ~absent /\ out.data.container = name
                             ELSE /\ out.tag = "raise"
                                  /\ \E f \in (SdkFaults \ {"none"}) \cup
                                              (IF absent THEN {"NotFound"} ELSE {}) :
                                         out.msg = <<"Failed to get logs for container ",
                                                     name, ": ">> \o Str(f)
               /\ last'.ep = "get_logs_with_pods"
                      => LET name == last'.req.pod_name
                             absent == name \notin cluster
                         IN  IF ok THEN ~absent /\ out.data.pod = name
                             ELSE /\ out.tag = "raise"
                                  /\ \/ out.msg = <<"Kubernetes API error: ", "Forbidden">>
                                     \/ out.msg = <<"Unexpected error: ">> \o
                                                      Str("MaxRetryError")
                                     \/ /\ absent
                                        /\ out.msg = <<"Kubernetes API error: ", "Not Found">>

MutatingEndpoints == {"build_image", "push_image", "pull_image", "run_container",
                      "stop_container", "start_container", "restart_container",
                      "remove_container", "create_docker_volume",
                      "delete_docker_volume"}

\* str(e) of the exceptions the engine raises.
EngineTexts == {Str(e) : e \in {"APIError", "NotFound", "ImageNotFound", "Conflict",
                                "DockerException"}}

\* C17 as stated: a mutating operation makes each engine request at most
\* once in a call, and when it fails its outcome is an error record whose
\* message is the engine's own text, unaltered.
C17_SingleAttemptVerbatim ==
    (last.ep \in MutatingEndpoints /\ last.outcome # None)
        => /\ \A i \in DOMAIN last.calls, j \in DOMAIN last.calls :
                  last.calls[i] = last.calls[j] => i = j
           /\ last.outcome.tag # "success"
                  => /\ last.outcome.tag = "error"
                     /\ last.outcome.msg \in EngineTexts

RegistryEndpoints == {"push_image", "push_image_ghcr", "pull_image", "pull_image_ghcr"}

\* C18 as stated: every push and pull authenticates in the call itself, and
\* no credential state is left for, or taken from, another call.
C18_Step ==
    (last' # last /\ last'.ep \in RegistryEndpoints /\ last'.outcome # None)
        => /\ last'.calls[1].fn \in {"docker_client.login", "docker login"}
           /\ docker'.auth = docker.auth
           /\ fs'.cli_auth = fs.cli_auth

C18_AuthPerCall == [][C18_Step]_vars

\* A text without a character.
IsEmptyText(msg) == \A i \in DOMAIN msg : msg[i] = ""

\* C19 as stated: the error record a failed gateway operation returns has a
\* non-empty message, run_command after a non-zero exit included.
C19_ErrorPopulated ==
    (IsProtected(last.ep) /\ last.outcome # None /\ last.outcome.tag = "error")
        => ~IsEmptyText(last.outcome.msg)

\* C20 as stated: for all passwords p and q, verify_password(q,
\* get_password_hash(p)) is true if q = p and false if q # p.
C20_HashVerify ==
    last.ep = "verify_password"
        => (last.body.result <=> last.req.candidate = last.req.password)

\* C21: no plaintext password is stored or logged: every document of the
\* users collection has the four fields _id, username, hashed_password and
\* role, hashed_password being the hash of the password the account was
\* registered with, and no entry register, login or the auth service write
\* to the log has a password among its pieces.
C21_NoPlaintext ==
    /\ \A d \in users :
           /\ DOMAIN d = {"_id", "username", "hashed_password", "role"}
           /\ DOMAIN d.hashed_password = {"salt", "digest"}
           /\ registered[d.username] # None
                  => d.hashed_password =
                         get_password_hash(registered[d.username].password,
                                           d.hashed_password.salt)
    /\ \A entry \in auth_log(last) :
           \A i \in DOMAIN entry : DOMAIN entry[i] \subseteq {"text", "username", "role", "id"}

C21_Witness ==
    /\ last.ep = "token"
    /\ last.status = 401
    /\ registered[last.req.username] # None
    /\ Cardinality(auth_log(last)) = 5
    /\ Cardinality(users) = 2

\* The words that name what each mutating endpoint does.
ActionVerbs ==
    [run_container |-> {"initiated", "started", "created"},
     run_pod |-> {"created", "initiated", "started"},
     stop_container |-> {"stopped"},
     start_container |-> {"started"},
     restart_container |-> {"restarted"},
     remove_container |-> {"deleted", "removed"},
     create_docker_volume |-> {"created"},
     delete_docker_volume |-> {"deleted", "removed"},
     build_image |-> {"build", "built"},
     push_image |-> {"pushed"},
     pull_image |-> {"pulled", "initiated"},
     remove_image |-> {"deleted", "removed"}]

\* C22 as stated: the success response of a mutating endpoint is {message,
\* result}, and its message names the acting user, the target of the request
\* and the action that endpoint performs.
C22_MessageNamesAction ==
    (last.ep \in DOMAIN ActionVerbs /\ last.status = 200)
        => /\ DOMAIN last.body = {"message", "result"}
           /\ last.body.result = last.outcome
           /\ last.body.message.actor = last.identity.username
           /\ last.body.message.action \in ActionVerbs[last.ep]

\* The roles each endpoint declares at its call site (all, unless listed).
DeclaredRoles(ep) ==
    IF ep = "remove_container" THEN {"admin"}
    ELSE IF ep \in {"get_logs", "get_logs_with_pods"} THEN {"admin", "user"}
    ELSE Roles

\* C23: the gateway runs only for a request whose token authenticated and
\* whose role passed the role check of the endpoint: a request answered 401
\* or 403 makes no engine or cluster call and changes nothing, and every
\* request that makes a call or changes the engine is one of an
\* authenticated identity with a declared role.
C23_Step ==
    (last' # last /\ IsProtected(last'.ep))
        => LET cur == get_current_user(last'.token)
               authorized == /\ cur.status = 200
                             /\ cur.user.role \in DeclaredRoles(last'.ep)
           IN  /\ last'.status \in {401, 403}
                      => /\ last'.calls = <<>>
                         /\ last'.outcome = None
                         /\ UNCHANGED engineVars
               /\ (last'.calls # <<>> \/ last'.outcome # None \/ ~UNCHANGED engineVars)
                      => /\ authorized
                         /\ last'.identity = cur.user
               /\ ~authorized => last'.status = (IF cur.status = 200 THEN 403 ELSE 401)

C23_AuthPrecedesExecution == [][C23_Step]_vars

C23_Witness ==
    /\ last.ep = "remove_container"
    /\ last.status = 403
    /\ last.token \in issued
    /\ docker.containers["web"] = "exited"

\* C24 as stated: a register request that loses the race for a fresh
\* username (both requests passed the look-up before either inserted) is
\* answered like a sequential duplicate, 400 "Username already registered".
C24_RaceLoserGets400 ==
    (last.ep = "register" /\ last.status # 201)
        => /\ last.status = 400
           /\ last.detail = <<"Username already registered">>

\* C25: the role that decides is the role stored for the subject of the
\* token at the time of the request; the role embedded in the token is not
\* consulted: a validly signed, unexpired token of an existing account is
\* refused with 403 exactly when the stored role is not among the declared
\* roles, and the identity returned carries the stored role.
C25_Step ==
    (/\ last' # last
     /\ IsProtected(last'.ep)
     /\ ~BadToken(last'.token, now))
        => LET doc == get_user_by_username(last'.token.sub)
           IN  IF doc = None THEN last'.status = 401
               ELSE IF doc.role \in DeclaredRoles(last'.ep)
               THEN /\ last'.status \notin {401, 403}
                    /\ last'.identity.username = doc.username
                    /\ last'.identity.role = doc.role
               ELSE /\ last'.status = 403
                    /\ last'.calls = <<>>

C25_StoredRoleDecides == [][C25_Step]_vars

C25_Witness ==
    /\ last.ep = "remove_container"
    /\ last.token \in issued
    /\ last.token.role = "admin"
    /\ last.status = 403
    /\ \E d \in users : d.username = last.token.sub /\ d.role = "user"

\* C26: no operation removes a cloned directory: the set of directories
\* only grows, a call whose clone succeeded leaves the directory in place
\* whether the build succeeded or failed, and every call made while the
\* directory of repo_name exists answers "already exists" and runs neither
\* the clone nor the build.
C26_Step ==
    /\ fs.dirs \subseteq fs'.dirs
    /\ (last' # last /\ last'.ep = "build_image_github" /\ last'.outcome # None)
           => LET repo == last'.req.repo_name
              IN  /\ (last'.calls # <<>> /\ last'.calls[1] = Call("git clone", repo)
                        /\ Len(last'.calls) = 2)
                         => repo \in fs'.dirs
                  /\ repo \in fs.dirs
                         => /\ last'.outcome =
                                 Error(<<"Directory ", repo, " already exists.">>)
                            /\ \A i \in DOMAIN last'.calls :
                                   last'.calls[i].fn \notin {"git clone", "docker build"}
                            /\ docker'.images = docker.images
                            /\ fs' = fs

C26_CloneNeverRemoved == [][C26_Step]_vars

C26_Witness ==
    /\ last.ep = "build_image_github"
    /\ last.outcome = Error(<<"Directory ", last.req.repo_name, " already exists.">>)
    /\ last.req.image_name \notin docker.images
    /\ last.status = 200

\* C27: POST /register takes no token and stores the role it was asked
\* for: registering a free username answers 201 and stores the requested
\* role, a successful login embeds the stored role, and DELETE
\* /docker/remove/{name} with a token issued to an account registered as
\* admin is answered neither 401 nor 403.
C27_Step ==
    /\ last'.ep = "register"
           => /\ last'.token = NoToken
              /\ get_user_by_username(last'.req.username) = None
                     => /\ last'.status = 201
                        /\ \E d \in users' : /\ d.username = last'.req.username
                                             /\ d.role = last'.req.role
                                             /\ d._id = last'.body.user_id
    /\ (last'.ep = "token" /\ last'.status = 200)
           => /\ last'.body.access_token.sub = last'.req.username
              /\ last'.body.access_token.role =
                     get_user_by_username(last'.req.username).role
    /\ (/\ last'.ep = "remove_container"
        /\ last'.token \in issued
        /\ registered[last'.token.sub].role = "admin")
           => /\ last'.status \notin {401, 403}
              /\ last'.identity.role = "admin"

C27_SelfServiceAdmin == [][C27_Step]_vars

C27_Witness ==
    /\ last.ep = "remove_container"
    /\ last.status = 200
    /\ last.token \in issued
    /\ registered[last.token.sub].role = "admin"
    /\ Cardinality(users) = 1
    /\ docker.containers[last.req.container_name] = "absent"

====
